---- MODULE Spec2Model ----
(***************************************************************************)
(* Model of the simulation scripts of the repository:                      *)
(*   Battery_discharge_model.py  (discrete SOC recurrence with a floor)    *)
(*   seir_model.py, sirs_model.py (compartmental ODE right-hand sides)     *)
(*   stock_market_fluctuation.py (seeded geometric Brownian motion path)   *)
(*                                                                         *)
(* Python floats are modelled by exact rationals <<num, den>> (den > 0,    *)
(* lowest terms), so that every arithmetic expression of the scripts is    *)
(* evaluated as written.  Arrays are 0-based in the scripts and are kept   *)
(* as sequences here: element k of an array is At(arr, k).                 *)
(***************************************************************************)
EXTENDS Integers, Sequences, FiniteSets, TLC

VARIABLES
    bat,        \* battery parameters Q, R_int, I_discharge, SOC0, a, b, t_end, dt
    n_steps,    \* battery: number of grid points
    time,       \* battery: time array
    soc,        \* battery: state-of-charge array
    voc,        \* battery: open-circuit voltage array
    vbat,       \* battery: terminal voltage array
    k,          \* battery: loop index
    pc,         \* battery: position of the script
    err,        \* battery: exception that ended the script ("" if none)
    writes,     \* battery: grid indices in the order their records were stored
    epi,        \* epidemic: model, N, beta, sigma, gamma, xi, y0 and the grid (T, n)
    t,          \* epidemic: time grid
    ret,        \* epidemic: rows of the solution computed so far
    epc,        \* epidemic: position of the script
    gbm,        \* GBM: parameters S0, mu, sigma, T, dt and the seed
    N_gbm,      \* GBM: number of grid points N
    rng,        \* GBM: state of numpy's process-wide generator
    rng0,       \* GBM: the generator's state when the run started
    dW,         \* GBM: Brownian increments
    S_gbm,      \* GBM: price array S
    i_gbm,      \* GBM: loop index i
    gpc,        \* GBM: position of the script
    reads,      \* GBM: indices of dW read by the steps, in order
    run,        \* GBM: 1 for the first run of the script, 2 for the second
    first       \* GBM: what the first run produced

batVars == <<bat, n_steps, time, soc, voc, vbat, k, pc, err, writes>>

epiVars == <<epi, t, ret, epc>>

gbmVars == <<gbm, N_gbm, rng, rng0, dW, S_gbm, i_gbm, gpc, reads, run, first>>

vars == <<batVars, epiVars, gbmVars>>

-----------------------------------------------------------------------------
(* Exact rational arithmetic standing for Python float arithmetic.         *)

\* Each operand is bound once (x \in {x0}) before it is used, so that an
\* operand expression is evaluated a single time however deep the nesting.
Once(S) == CHOOSE r \in S : TRUE

Abs(n) == IF n < 0 THEN -n ELSE n

RECURSIVE GCD(_, _)
GCD(m, n) == IF n = 0 THEN m ELSE Once({GCD(n, r) : r \in {m % n}})

Rat(n0, d0) ==
    Once({ LET s == IF d < 0 THEN -1 ELSE 1
           IN  Once({<<(s * n) \div g, (s * d) \div g>> : g \in {GCD(Abs(n), Abs(d))}})
           : n \in {n0}, d \in {d0} })

RInt(n) == <<n, 1>>

\* sums are formed over the least common denominator
RAddLcd(x, y, g) ==
    Rat(x[1] * (y[2] \div g) + y[1] * (x[2] \div g), (x[2] \div g) * y[2])

RAdd(x0, y0) ==
    Once({RAddLcd(x, y, GCD(x[2], y[2])) : x \in {x0}, y \in {y0}})

RNeg(x0) == Once({<<-x[1], x[2]>> : x \in {x0}})

RSub(x0, y0) == RAdd(x0, RNeg(y0))

RMul(x0, y0) ==
    Once({Rat(x[1] * y[1], x[2] * y[2]) : x \in {x0}, y \in {y0}})

RDiv(x0, y0) ==
    Once({Rat(x[1] * y[2], x[2] * y[1]) : x \in {x0}, y \in {y0}})

RLe(x0, y0) == \E x \in {x0}, y \in {y0} : x[1] * y[2] <= y[1] * x[2]

RLt(x0, y0) == \E x \in {x0}, y \in {y0} : x[1] * y[2] < y[1] * x[2]

RMax(x0, y0) ==
    Once({IF RLt(x, y) THEN y ELSE x : x \in {x0}, y \in {y0}})

RZero == RInt(0)

ROne == RInt(1)

\* numpy array helpers: 0-based element access, store, and np.zeros(n)
At(arr, j) == arr[j + 1]

Put(arr, j, v) == [arr EXCEPT ![j + 1] = v]

Zeros(n, z) == [j \in 1..n |-> z]

\* Python int(x / y) for integers x, y /= 0: truncation toward zero
TruncDiv(x, y) ==
    IF (x >= 0) = (y > 0) THEN Abs(x) \div Abs(y) ELSE -(Abs(x) \div Abs(y))

-----------------------------------------------------------------------------
(* Battery_discharge_model.py                                              *)

\* Bounds of the explored battery inputs
MaxSteps == 5
UnitDt == 900
MaxCurrent == 4
MaxCapacity == 2

SecondsPerHour == 3600

\* OCV parameters and internal resistance of the script
A_OCV == <<6, 5>>
B_OCV == <<5, 2>>
R_INT == <<1, 20>>

BatteryInputs ==
    [Q : {RInt(q) : q \in 1..MaxCapacity},
     R_int : {R_INT},
     I_discharge : {RInt(c) : c \in {-1, 0, 1, 2, MaxCurrent}},
     SOC0 : {RZero, Rat(1, 2), ROne},
     a : {A_OCV},
     b : {B_OCV, RInt(3)},
     t_end : {m * UnitDt : m \in -2..MaxSteps} \cup {UnitDt + 1},
     dt : {-UnitDt, 0, UnitDt, 2 * UnitDt}]

\* V_OC(SOC) = a * SOC + b
OpenCircuitVoltage(s) == RAdd(RMul(bat.a, s), bat.b)

\* mutant of TerminalVoltage: the resistive drop is added
TerminalVoltageSignSlip(v) == RAdd(v, RMul(bat.I_discharge, bat.R_int))

\* V_bat = V_OC - I * R_int
TerminalVoltage(v) == RSub(v, RMul(bat.I_discharge, bat.R_int))

\* mutant of SocDecrement: the hours-to-seconds conversion is forgotten
SocDecrementNoHours == RDiv(RMul(bat.I_discharge, RInt(bat.dt)), bat.Q)

\* SOC update of one loop iteration: the decrement, then the floor at 0
SocDecrement ==
    RDiv(RMul(bat.I_discharge, RInt(bat.dt)), RMul(bat.Q, RInt(SecondsPerHour)))

\* mutant of SocFloor: the floor is forgotten
SocFloorMissing(s) == s

SocFloor(s) == RMax(s, RZero)

\* mutant of SocUpdate: the decrement is added instead of subtracted
SocUpdateSignSlip(prev) == SocFloor(RAdd(prev, SocDecrement))

SocUpdate(prev) == SocFloor(RSub(prev, SocDecrement))

\* mutant of NextIndex: the loop index advances by two
NextIndexSkips(j) == j + 2

\* the index range(1, n_steps) yields after j
NextIndex(j) == j + 1

\* the epidemic scripts are not run
EpiIdle ==
    /\ epi = [model |-> "none"]
    /\ t = <<>>
    /\ ret = <<>>
    /\ epc = "idle"

\* the GBM script is not run
GbmIdle ==
    /\ gbm = [S0 |-> 0]
    /\ N_gbm = 0
    /\ rng = 0
    /\ rng0 = 0
    /\ dW = <<>>
    /\ S_gbm = <<>>
    /\ i_gbm = 0
    /\ gpc = "idle"
    /\ reads = <<>>
    /\ run = 0
    /\ first = <<>>

BatteryInit ==
    /\ EpiIdle
    /\ GbmIdle
    /\ bat \in BatteryInputs
    /\ n_steps = 0
    /\ time = <<>>
    /\ soc = <<>>
    /\ voc = <<>>
    /\ vbat = <<>>
    /\ k = 0
    /\ pc = "params"
    /\ err = ""
    /\ writes = <<>>

\* n_steps = int(t_end / dt)
ComputeSteps ==
    /\ pc = "params"
    /\ IF bat.dt = 0
       THEN /\ pc' = "failed"
            /\ err' = "ZeroDivisionError"
            /\ UNCHANGED n_steps
       ELSE /\ n_steps' = TruncDiv(bat.t_end, bat.dt)
            /\ pc' = "alloc"
            /\ UNCHANGED err
    /\ UNCHANGED <<bat, time, soc, voc, vbat, k, writes>>
    /\ UNCHANGED <<epiVars, gbmVars>>

\* time = np.zeros(n_steps) ... vbat = np.zeros(n_steps)
InitializeArrays ==
    /\ pc = "alloc"
    /\ IF n_steps < 0
       THEN /\ pc' = "failed"
            /\ err' = "ValueError"
            /\ UNCHANGED <<time, soc, voc, vbat>>
       ELSE /\ time' = Zeros(n_steps, 0)
            /\ soc' = Zeros(n_steps, RZero)
            /\ voc' = Zeros(n_steps, RZero)
            /\ vbat' = Zeros(n_steps, RZero)
            /\ pc' = "initial"
            /\ UNCHANGED err
    /\ UNCHANGED <<bat, n_steps, k, writes>>
    /\ UNCHANGED <<epiVars, gbmVars>>

\* soc[0] = SOC0; voc[0] = a * soc[0] + b; vbat[0] = voc[0] - I * R_int
InitialConditions ==
    /\ pc = "initial"
    /\ IF n_steps = 0
       THEN /\ pc' = "failed"
            /\ err' = "IndexError"
            /\ UNCHANGED <<soc, voc, vbat, k, writes>>
       ELSE LET s0 == bat.SOC0
                v0 == OpenCircuitVoltage(s0)
            IN  /\ soc' = Put(soc, 0, s0)
                /\ voc' = Put(voc, 0, v0)
                /\ vbat' = Put(vbat, 0, TerminalVoltage(v0))
                /\ writes' = Append(writes, 0)
                /\ k' = 1
                /\ pc' = "loop"
                /\ UNCHANGED err
    /\ UNCHANGED <<bat, n_steps, time>>
    /\ UNCHANGED <<epiVars, gbmVars>>

\* the body of the simulation loop for index j, on the arrays in st
LoopBody(st, j) ==
    LET s == SocUpdate(At(st.soc, j - 1))
        v == OpenCircuitVoltage(At(Put(st.soc, j, s), j))
    IN  [time |-> Put(st.time, j, At(st.time, j - 1) + bat.dt),
         soc |-> Put(st.soc, j, s),
         voc |-> Put(st.voc, j, v),
         vbat |-> Put(st.vbat, j, TerminalVoltage(At(Put(st.voc, j, v), j))),
         writes |-> Append(st.writes, j)]

Arrays == [time |-> time, soc |-> soc, voc |-> voc, vbat |-> vbat, writes |-> writes]

\* one iteration of: for k in range(1, n_steps)
LoopStep ==
    /\ pc = "loop"
    /\ k < n_steps
    /\ LET st == LoopBody(Arrays, k)
       IN  /\ time' = st.time
           /\ soc' = st.soc
           /\ voc' = st.voc
           /\ vbat' = st.vbat
           /\ writes' = st.writes
    /\ k' = NextIndex(k)
    /\ UNCHANGED <<bat, n_steps, pc, err>>
    /\ UNCHANGED <<epiVars, gbmVars>>

\* range(1, n_steps) is exhausted: the script goes on to plot the arrays
LoopExit ==
    /\ pc = "loop"
    /\ k >= n_steps
    /\ pc' = "complete"
    /\ UNCHANGED <<bat, n_steps, time, soc, voc, vbat, k, err, writes>>
    /\ UNCHANGED <<epiVars, gbmVars>>

BatteryNext ==
    \/ ComputeSteps
    \/ InitializeArrays
    \/ InitialConditions
    \/ LoopStep
    \/ LoopExit

SpecBattery == BatteryInit /\ [][BatteryNext]_vars

\* The script as committed: its constants, 3600 grid points of 1 s
Q_AH == 2
I_AMPS == 1
T_END == 3600
DT == 1

ScriptInputs ==
    [Q |-> RInt(Q_AH), R_int |-> R_INT, I_discharge |-> RInt(I_AMPS),
     SOC0 |-> ROne, a |-> A_OCV, b |-> B_OCV, t_end |-> T_END, dt |-> DT]

\* the loop bodies for j = lo, lo+1, ..., hi in this order
RECURSIVE LoopRange(_, _, _)
LoopRange(st, lo, hi) ==
    IF lo > hi THEN st
    ELSE IF lo = hi THEN LoopBody(st, lo)
    ELSE LET mid == (lo + hi) \div 2
             half == LoopRange(st, lo, mid)
         \* the test makes the first half be computed before the second
         IN  IF Len(half.writes) > 0 THEN LoopRange(half, mid + 1, hi) ELSE half

\* the whole statement: for k in range(1, n_steps): ...
SimulationLoop ==
    /\ pc = "loop"
    /\ LET st == LoopRange(Arrays, k, n_steps - 1)
       IN  /\ time' = st.time
           /\ soc' = st.soc
           /\ voc' = st.voc
           /\ vbat' = st.vbat
           /\ writes' = st.writes
    /\ k' = IF k < n_steps THEN n_steps ELSE k
    /\ pc' = "complete"
    /\ UNCHANGED <<bat, n_steps, err>>
    /\ UNCHANGED <<epiVars, gbmVars>>

ScriptInit ==
    /\ EpiIdle
    /\ GbmIdle
    /\ bat \in BatteryInputs \cup {ScriptInputs}
    /\ n_steps = 0
    /\ time = <<>>
    /\ soc = <<>>
    /\ voc = <<>>
    /\ vbat = <<>>
    /\ k = 0
    /\ pc = "params"
    /\ err = ""
    /\ writes = <<>>

ScriptNext ==
    \/ ComputeSteps
    \/ InitializeArrays
    \/ InitialConditions
    \/ SimulationLoop

\* the script statement by statement, the simulation loop as one statement
SpecScript == ScriptInit /\ [][ScriptNext]_vars

\* The script is one thread that runs each statement as soon as it is reached
SpecBatteryRun == BatteryInit /\ [][BatteryNext]_vars /\ WF_vars(BatteryNext)

-----------------------------------------------------------------------------
(* Properties of the battery run                                           *)

\* grid indices whose record has been stored
Stored == {writes[j] : j \in 1..Len(writes)}

\* the parameter sets and grids the properties call valid
ValidBattery ==
    /\ RLt(RZero, bat.Q)
    /\ RLe(RZero, bat.I_discharge)
    /\ bat.dt > 0
    /\ RLe(RZero, bat.SOC0)
    /\ RLe(bat.SOC0, ROne)

\* the floor acted in the step that stored index j: the decrement alone
\* would have taken SOC below zero
Floored(j) ==
    /\ j >= 1
    /\ RLt(RMul(At(soc, j - 1), RMul(bat.Q, RInt(SecondsPerHour))),
           RMul(bat.I_discharge, RInt(bat.dt)))

\* C1: for valid parameters, the SOC stored at every grid point lies in
\* [0,1] and is not above the SOC stored at the grid point before it.
C1_SocBoundedNonIncreasing ==
    ValidBattery =>
        \A j \in Stored :
            /\ RLe(RZero, At(soc, j))
            /\ RLe(At(soc, j), ROne)
            /\ (j >= 1 => RLe(At(soc, j), At(soc, j - 1)))

C1_Witness ==
    /\ ValidBattery
    /\ pc = "complete"
    /\ n_steps >= 3
    /\ Floored(n_steps - 1)
    /\ At(soc, n_steps - 1) = RZero
    /\ RLt(At(soc, 1), At(soc, 0))

\* C7: at every stored grid point, the initial one included,
\* voc[k] = a*soc[k] + b and vbat[k] = voc[k] - I*R_int.
C7_DerivedVoltages ==
    \A j \in Stored :
        /\ At(voc, j) = RAdd(RMul(bat.a, At(soc, j)), bat.b)
        /\ At(vbat, j) = RSub(At(voc, j), RMul(bat.I_discharge, bat.R_int))

C7_Witness ==
    /\ pc = "complete"
    /\ n_steps >= 3
    /\ \E j \in Stored : Floored(j)
    /\ RLt(RZero, bat.I_discharge)
    /\ At(voc, 0) # At(voc, n_steps - 1)

\* C10: for valid parameters, once a stored SOC is 0, every later stored
\* grid point has soc = 0, voc = b and vbat = b - I*R_int.
C10_FloorAbsorbing ==
    ValidBattery =>
        \A i \in Stored : \A j \in Stored :
            (i < j /\ At(soc, i) = RZero) =>
                /\ At(soc, j) = RZero
                /\ At(voc, j) = bat.b
                /\ At(vbat, j) = RSub(bat.b, RMul(bat.I_discharge, bat.R_int))

C10_Witness ==
    /\ ValidBattery
    /\ pc = "complete"
    /\ RLt(RZero, bat.I_discharge)
    /\ RLt(RZero, bat.SOC0)
    /\ \E i \in Stored : \E j \in Stored :
           /\ 1 <= i
           /\ i + 1 < j
           /\ At(soc, i) = RZero
           /\ At(soc, j) = RZero

\* a grid the time-grid validation is to reject: step size not positive, or
\* no grid point at all
InvalidGrid == bat.dt <= 0 \/ bat.t_end < bat.dt

\* C6: a run whose step size is not positive or whose grid is empty is
\* rejected before any stepping: it never reaches the loop and stores no
\* record.
C6_RejectedBeforeStepping ==
    InvalidGrid => (pc \notin {"loop", "complete"} /\ writes = <<>>)

\* C8: records are stored once each in increasing index order starting at 0,
\* a stored record is never changed by a later step, the run moves
\* params -> ... -> loop -> complete and never back, and a run on a
\* well-formed grid ends complete with every grid index stored.
WritesInOrder == \A j \in 1..Len(writes) : writes[j] = j - 1

StoredRecordsKept ==
    \A j \in Stored :
        /\ At(time', j) = At(time, j)
        /\ At(soc', j) = At(soc, j)
        /\ At(voc', j) = At(voc, j)
        /\ At(vbat', j) = At(vbat, j)

Rank(p) ==
    CASE p = "params" -> 0
      [] p = "alloc" -> 1
      [] p = "initial" -> 2
      [] p = "loop" -> 3
      [] OTHER -> 4

Forward == Rank(pc) <= Rank(pc') /\ (pc = "complete" => pc' = "complete")

Completed == pc = "complete" /\ Stored = 0..(n_steps - 1) /\ Len(writes) = n_steps

C8_Lifecycle ==
    /\ [](WritesInOrder /\ (pc = "complete" => Completed))
    /\ [][StoredRecordsKept /\ Forward]_vars
    /\ [](~InvalidGrid => <>Completed)

C8_Witness ==
    /\ Completed
    /\ n_steps >= 4
    /\ writes = <<0, 1, 2, 3>>

\* C2 as stated: the script's run ends with SOC = 0, V_OC = b = 2.5 and
\* V_bat = 2.45 at the last grid point.
C2_FinalFloored ==
    (bat = ScriptInputs /\ pc = "complete") =>
        /\ At(soc, n_steps - 1) = RZero
        /\ At(voc, n_steps - 1) = Rat(5, 2)
        /\ At(vbat, n_steps - 1) = Rat(49, 20)

\* C2 amended: the script's run ends, at the last grid point (index 3599),
\* with SOC = 1 - 3599/7200 = 3601/7200, V_OC = 1.2*SOC + 2.5 = 18601/6000
\* and V_bat = V_OC - 0.05 = 18301/6000; the floor never acts.
C2_FinalHalfDischarged ==
    (bat = ScriptInputs /\ pc = "complete") =>
        /\ n_steps = 3600
        /\ At(soc, n_steps - 1) = Rat(3601, 7200)
        /\ At(voc, n_steps - 1) = Rat(18601, 6000)
        /\ At(vbat, n_steps - 1) = Rat(18301, 6000)
        /\ \A j \in Stored : ~Floored(j)

C2_Witness ==
    /\ pc = "complete"
    /\ bat = ScriptInputs
    /\ Len(writes) = 3600
    /\ At(time, n_steps - 1) = 3599

-----------------------------------------------------------------------------
(* seir_model.py and sirs_model.py                                         *)

\* Bounds of the explored epidemic inputs
MaxPopulation == 4
MaxGrid == 4
MaxHorizon == 2
\* a row is integrated further only while its denominators are at most this
MaxDen == 64

\* deriv of seir_model.py
seir_deriv(y, N, beta, sigma, gamma) ==
    LET S == y[1]
        E == y[2]
        I == y[3]
        R == y[4]
        dSdt == RDiv(RMul(RMul(RNeg(beta), S), I), N)
        dEdt == RSub(RDiv(RMul(RMul(beta, S), I), N), RMul(sigma, E))
        dIdt == RSub(RMul(sigma, E), RMul(gamma, I))
        dRdt == RMul(gamma, I)
    IN  <<dSdt, dEdt, dIdt, dRdt>>

\* mutant of sirs_deriv: the return flow xi * R is missing from dSdt
sirs_deriv_no_return(y, N, beta, gamma, xi) ==
    LET S == y[1]
        I == y[2]
        R == y[3]
        dSdt == RDiv(RMul(RMul(RNeg(beta), S), I), N)
        dIdt == RSub(RDiv(RMul(RMul(beta, S), I), N), RMul(gamma, I))
        dRdt == RSub(RMul(gamma, I), RMul(xi, R))
    IN  <<dSdt, dIdt, dRdt>>

\* deriv of sirs_model.py
sirs_deriv(y, N, beta, gamma, xi) ==
    LET S == y[1]
        I == y[2]
        R == y[3]
        dSdt == RAdd(RDiv(RMul(RMul(RNeg(beta), S), I), N), RMul(xi, R))
        dIdt == RSub(RDiv(RMul(RMul(beta, S), I), N), RMul(gamma, I))
        dRdt == RSub(RMul(gamma, I), RMul(xi, R))
    IN  <<dSdt, dIdt, dRdt>>

\* the right-hand side odeint is given, with its args
Deriv(y) ==
    IF epi.model = "SEIR"
    THEN seir_deriv(y, RInt(epi.N), epi.beta, epi.sigma, epi.gamma)
    ELSE sirs_deriv(y, RInt(epi.N), epi.beta, epi.gamma, epi.xi)

\* np.linspace(0, T, n) for n >= 2
Linspace(T, n) == [j \in 1..n |-> Rat(T * (j - 1), n - 1)]

\* one integration step from row y over a grid interval of length h:
\* the row plus h times the right-hand side
OdeStep(y0, h0) ==
    Once({[c \in DOMAIN y |-> RAdd(y[c], RMul(h, d[c]))]
          : y \in {y0}, h \in {h0}, d \in {Deriv(y0)}})

Rates == {RZero, Rat(1, 2), ROne}

Compartment == 0..1

SeirInputs ==
    {[model |-> "SEIR", N |-> N, beta |-> beta, sigma |-> sigma, gamma |-> gamma,
      xi |-> RZero, y0 |-> <<RInt(N - I0 - E0 - R0), RInt(E0), RInt(I0), RInt(R0)>>,
      T |-> T, n |-> n] :
        N \in {2, MaxPopulation}, beta \in Rates \cup {RInt(2)},
        sigma \in {Rat(1, 2), ROne}, gamma \in {RZero, Rat(1, 2)},
        E0 \in Compartment, I0 \in Compartment, R0 \in Compartment,
        T \in 1..MaxHorizon, n \in 2..MaxGrid}

SirsInputs ==
    {[model |-> "SIRS", N |-> N, beta |-> beta, sigma |-> RZero, gamma |-> gamma,
      xi |-> xi, y0 |-> <<RInt(N - I0 - R0), RInt(I0), RInt(R0)>>,
      T |-> T, n |-> n] :
        N \in {2, MaxPopulation}, beta \in Rates \cup {RInt(2)},
        gamma \in {RZero, Rat(1, 2)}, xi \in Rates,
        I0 \in Compartment, R0 \in 0..2,
        T \in 1..MaxHorizon, n \in 2..MaxGrid}

\* the battery script is not run
BatIdle ==
    /\ bat = [Q |-> ROne]
    /\ n_steps = 0
    /\ time = <<>>
    /\ soc = <<>>
    /\ voc = <<>>
    /\ vbat = <<>>
    /\ k = 0
    /\ pc = "idle"
    /\ err = ""
    /\ writes = <<>>

EpidemicInit ==
    /\ BatIdle
    /\ GbmIdle
    /\ epi \in SeirInputs \cup SirsInputs
    /\ t = <<>>
    /\ ret = <<>>
    /\ epc = "params"

\* t = np.linspace(0, 160, 160)
TimeGrid ==
    /\ epc = "params"
    /\ t' = Linspace(epi.T, epi.n)
    /\ epc' = "integrate"
    /\ UNCHANGED <<epi, ret>>
    /\ UNCHANGED <<batVars, gbmVars>>

\* odeint(deriv, y0, t, ...): the first row of the solution is y0
OdeintStart ==
    /\ epc = "integrate"
    /\ ret = <<>>
    /\ ret' = <<epi.y0>>
    /\ UNCHANGED <<epi, t, epc>>
    /\ UNCHANGED <<batVars, gbmVars>>

DenOk(y) == \A c \in DOMAIN y : y[c][2] <= MaxDen

\* odeint(deriv, y0, t, ...): the row of the next grid point
OdeintAdvance ==
    /\ epc = "integrate"
    /\ ret # <<>>
    /\ Len(ret) < Len(t)
    /\ DenOk(ret[Len(ret)])
    /\ LET j == Len(ret)
       IN  ret' = Append(ret, OdeStep(ret[j], RSub(t[j + 1], t[j])))
    /\ UNCHANGED <<epi, t, epc>>
    /\ UNCHANGED <<batVars, gbmVars>>

\* S, E, I, R = ret.T
OdeintReturn ==
    /\ epc = "integrate"
    /\ Len(ret) = Len(t)
    /\ epc' = "done"
    /\ UNCHANGED <<epi, t, ret>>
    /\ UNCHANGED <<batVars, gbmVars>>

EpidemicNext ==
    \/ TimeGrid
    \/ OdeintStart
    \/ OdeintAdvance
    \/ OdeintReturn

SpecEpidemic == EpidemicInit /\ [][EpidemicNext]_vars

RECURSIVE RSum(_)
RSum(y) == IF y = <<>> THEN RZero ELSE RAdd(Head(y), RSum(Tail(y)))

\* C3: at every grid point computed, the compartments of the row sum to the
\* total population N (S+E+I+R for SEIR, S+I+R for SIRS), and the components
\* of the derivative at that row sum to zero (the derivative is evaluated at
\* the rows within the denominator bound).
C3_Conservation ==
    \A j \in 1..Len(ret) :
        /\ RSum(ret[j]) = RInt(epi.N)
        /\ DenOk(ret[j]) => RSum(Deriv(ret[j])) = RZero

C3_Witness ==
    /\ epc = "done"
    /\ epi.model = "SEIR"
    /\ Len(ret) >= 3
    /\ \A c \in 1..4 : ret[3][c] # ret[2][c] /\ ret[2][c] # ret[1][c]

-----------------------------------------------------------------------------
(* stock_market_fluctuation.py                                             *)
(*                                                                         *)
(* A double-precision price is kept by its sign and the logarithm of its   *)
(* magnitude in half-nats: [kind |-> "finite", sgn |-> 1, log |-> l] is    *)
(* exp(l/2).  Half-nats make (mu - 0.5*sigma^2)*dt + sigma*dW an integer   *)
(* for integer mu, sigma, dt, dW.  Magnitudes outside the double range     *)
(* become 0.0 or inf as IEEE arithmetic makes them.                        *)

\* Bounds of the explored GBM inputs
MaxT == 4
MaxVol == 40
MaxDrift == 800

\* the script's seed
SEED == 42

\* smallest and largest logarithm (half-nats) of a finite non-zero double:
\* results below exp(-745.13) round to 0.0, results above exp(709.78) to inf
LogMin == -1490
LogMax == 1419

FZero == [kind |-> "zero", sgn |-> 1, log |-> 0]

FNaN == [kind |-> "nan", sgn |-> 1, log |-> 0]

FInf(sg) == [kind |-> "inf", sgn |-> sg, log |-> 0]

FFinite(sg, l) == [kind |-> "finite", sgn |-> sg, log |-> l]

\* a magnitude exp(l/2) with sign sg, rounded into the double range
FRound(sg, l) ==
    IF l < LogMin THEN FZero
    ELSE IF l > LogMax THEN FInf(sg)
    ELSE FFinite(sg, l)

\* np.exp(x), x given in half-nats
FExp(x2) == FRound(1, x2)

\* a * b on doubles
FMul(a0, b0) ==
    Once({ IF a.kind = "nan" \/ b.kind = "nan" THEN FNaN
           ELSE IF {a.kind, b.kind} = {"zero", "inf"} THEN FNaN
           ELSE IF a.kind = "zero" \/ b.kind = "zero" THEN FZero
           ELSE IF a.kind = "inf" \/ b.kind = "inf" THEN FInf(a.sgn * b.sgn)
           ELSE FRound(a.sgn * b.sgn, a.log + b.log)
           : a \in {a0}, b \in {b0} })

\* x > 0 on doubles
FPositive(x) == x.kind \in {"finite", "inf"} /\ x.sgn = 1

\* np.sqrt(dt) for a dt that is a perfect square
Sqrt(n) == CHOOSE r \in 0..n : r * r = n

\* numpy's process-wide generator, as a small linear congruential generator:
\* its state after seed(s), its next state, and the standard normal draw
\* (a whole number of standard deviations) made from a state
RngModulus == 16
RngMultiplier == 5
RngIncrement == 3
RngSpread == 2

\* mutant of Seeded: seeding leaves the generator as it was
SeededKeepsState(state, seed) == state

\* np.random.seed(seed) on a generator in some state
Seeded(state, seed) == seed % RngModulus

RngNext(state) == (RngMultiplier * state + RngIncrement) % RngModulus

RngNormal(state) == (state % (2 * RngSpread + 1)) - RngSpread

\* np.random.normal(0, scale, size=n): the n draws and the generator after them
RECURSIVE Normal(_, _, _)
Normal(state, scale, n) ==
    IF n = 0 THEN [draws |-> <<>>, state |-> state]
    ELSE LET nxt == RngNext(state)
             rest == Normal(nxt, scale, n - 1)
         IN  [draws |-> <<scale * RngNormal(nxt)>> \o rest.draws, state |-> rest.state]

\* mutant of DwIndex: the step reads the increment at its own index
DwIndexOwn(j) == j

\* the index of dW that step j reads: dW[j-1]
DwIndex(j) == j - 1

\* twice the exponent (mu - 0.5 * sigma**2) * dt + sigma * dW[..]
Exponent2(w) == (2 * gbm.mu - gbm.sigma * gbm.sigma) * gbm.dt + 2 * gbm.sigma * w

\* the factor np.exp(...) of one step
GbmFactor(x2) == FExp(x2)

GbmInputs ==
    [S0 : {FFinite(1, 9), FZero, FFinite(-1, 9)},
     mu : {0, 1, MaxDrift},
     sigma : {0, 1, MaxVol},
     T : 0..MaxT \cup {3 * MaxT},
     dt : {1, 4},
     seed : {SEED}]

GbmInit ==
    /\ BatIdle
    /\ EpiIdle
    /\ gbm \in GbmInputs
    /\ N_gbm = 0
    /\ rng \in 0..(RngModulus - 1)
    /\ rng0 = rng
    /\ dW = <<>>
    /\ S_gbm = <<>>
    /\ i_gbm = 0
    /\ gpc = "params"
    /\ reads = <<>>
    /\ run = 1
    /\ first = <<>>

\* N = int(T/dt)
ComputeN ==
    /\ gpc = "params"
    /\ N_gbm' = TruncDiv(gbm.T, gbm.dt)
    /\ gpc' = "seed"
    /\ UNCHANGED <<gbm, rng, rng0, dW, S_gbm, i_gbm, reads, run, first>>
    /\ UNCHANGED <<batVars, epiVars>>

\* np.random.seed(42)
Seed ==
    /\ gpc = "seed"
    /\ rng' = Seeded(rng, gbm.seed)
    /\ gpc' = "draw"
    /\ UNCHANGED <<gbm, N_gbm, rng0, dW, S_gbm, i_gbm, reads, run, first>>
    /\ UNCHANGED <<batVars, epiVars>>

\* dW = np.random.normal(0, np.sqrt(dt), size=N-1)
DrawIncrements ==
    /\ gpc = "draw"
    /\ IF N_gbm - 1 < 0
       THEN /\ gpc' = "failed"
            /\ UNCHANGED <<dW, rng>>
       ELSE LET d == Normal(rng, Sqrt(gbm.dt), N_gbm - 1)
            IN  /\ dW' = d.draws
                /\ rng' = d.state
                /\ gpc' = "initial"
    /\ UNCHANGED <<gbm, N_gbm, rng0, S_gbm, i_gbm, reads, run, first>>
    /\ UNCHANGED <<batVars, epiVars>>

\* S = np.zeros(N); S[0] = S0
InitializePrice ==
    /\ gpc = "initial"
    /\ S_gbm' = Put(Zeros(N_gbm, FZero), 0, gbm.S0)
    /\ i_gbm' = 1
    /\ gpc' = "loop"
    /\ UNCHANGED <<gbm, N_gbm, rng, rng0, dW, reads, run, first>>
    /\ UNCHANGED <<batVars, epiVars>>

\* one iteration of: for i in range(1, N): S[i] = S[i-1] * np.exp(...)
\* (an index below 0 counts from the end of dW, one outside dW raises)
PathStep ==
    /\ gpc = "loop"
    /\ i_gbm < N_gbm
    /\ LET idx == DwIndex(i_gbm)
           n == Len(dW)
       IN  /\ reads' = Append(reads, idx)
           /\ IF idx >= n \/ idx < -n
              THEN /\ gpc' = "failed"
                   /\ UNCHANGED <<S_gbm, i_gbm>>
              ELSE LET w == At(dW, IF idx < 0 THEN idx + n ELSE idx)
                   IN  /\ S_gbm' = Put(S_gbm, i_gbm,
                                      FMul(At(S_gbm, i_gbm - 1), GbmFactor(Exponent2(w))))
                       /\ i_gbm' = i_gbm + 1
                       /\ UNCHANGED gpc
    /\ UNCHANGED <<gbm, N_gbm, rng, rng0, dW, run, first>>
    /\ UNCHANGED <<batVars, epiVars>>

\* range(1, N) is exhausted: the script goes on to plot S
PathDone ==
    /\ gpc = "loop"
    /\ i_gbm >= N_gbm
    /\ gpc' = "done"
    /\ UNCHANGED <<gbm, N_gbm, rng, rng0, dW, S_gbm, i_gbm, reads, run, first>>
    /\ UNCHANGED <<batVars, epiVars>>

\* the script is run a second time with the same parameters, in a process
\* whose generator is in any state; what the first run produced is kept
RunAgain ==
    /\ gpc = "done"
    /\ run = 1
    /\ first' = [S |-> S_gbm, dW |-> dW, rng0 |-> rng0]
    /\ run' = 2
    /\ \E r \in 0..(RngModulus - 1) : rng' = r /\ rng0' = r
    /\ N_gbm' = 0
    /\ dW' = <<>>
    /\ S_gbm' = <<>>
    /\ i_gbm' = 0
    /\ reads' = <<>>
    /\ gpc' = "params"
    /\ UNCHANGED gbm
    /\ UNCHANGED <<batVars, epiVars>>

GbmNext ==
    \/ ComputeN
    \/ Seed
    \/ DrawIncrements
    \/ InitializePrice
    \/ PathStep
    \/ PathDone
    \/ RunAgain

SpecGbm == GbmInit /\ [][GbmNext]_vars

\* price indices stored so far
Priced == IF gpc \in {"loop", "done"} THEN 0..(i_gbm - 1) ELSE {}

\* C4: a second run of the script with the same parameters and seed ends
\* with the same increments and the same price at every grid index as the
\* first run, whatever state the generator was in when each run started.
C4_Reproducible ==
    (run = 2 /\ gpc = "done") => (S_gbm = first.S /\ dW = first.dW)

C4_Witness ==
    /\ run = 2
    /\ gpc = "done"
    /\ N_gbm >= 4
    /\ first.rng0 # rng0
    /\ first.rng0 # Seeded(first.rng0, gbm.seed)
    /\ \E a \in 1..Len(dW) : \E b \in 1..Len(dW) : dW[a] # dW[b]
    /\ At(S_gbm, N_gbm - 1) # At(S_gbm, 0)

\* the step that stored price index j took its factor, or its product with
\* the price before it, below the smallest double: the result rounded to 0.0
StepUnderflows(j) ==
    LET x2 == Exponent2(At(dW, j - 1))
        prev == At(S_gbm, j - 1)
    IN  \/ x2 < LogMin
        \/ prev.kind = "finite" /\ prev.log + x2 < LogMin

\* C5 as stated, for a positive initial price: every price stored is
\* positive.
C5_AlwaysPositive ==
    FPositive(gbm.S0) => \A j \in Priced : FPositive(At(S_gbm, j))

\* What the path loop does keep: for a positive initial price, every price
\* stored is positive as long as no step so far underflowed.
PositiveUnlessUnderflow ==
    (FPositive(gbm.S0) /\ \A j \in Priced : j >= 1 => ~StepUnderflows(j)) =>
        \A j \in Priced : FPositive(At(S_gbm, j))

\* C9: step j of the path (1 <= j <= N-1) reads exactly dW[j-1] and
\* S[j] = S[j-1] * exp(...dW[j-1]); dW has N-1 increments, no read is
\* outside 0..N-2, no increment is read twice, and when the path is done
\* every increment has been read.
C9_OneDrawPerStep ==
    /\ gpc \in {"loop", "done"} => Len(dW) = N_gbm - 1
    /\ \A j \in 1..Len(reads) :
           /\ reads[j] = j - 1
           /\ reads[j] \in 0..(N_gbm - 2)
           /\ At(S_gbm, j) = FMul(At(S_gbm, j - 1), FExp(Exponent2(At(dW, j - 1))))
    /\ gpc = "done" =>
           /\ Len(reads) = Len(dW)
           /\ {reads[j] : j \in 1..Len(reads)} = 0..(N_gbm - 2)
    /\ gpc = "loop" => Len(reads) = i_gbm - 1

C9_Witness ==
    /\ gpc = "done"
    /\ N_gbm >= 4
    /\ reads = <<0, 1, 2>> \o SubSeq(reads, 4, Len(reads))
    /\ dW[1] # dW[2]

====
